---- MODULE Spec2Model ----
(***************************************************************************)
(* Model of lib/ansible/modules/network/asa/asa_facts.py: the resolution   *)
(* of gather_subset into the set of fact collectors, the execution of the  *)
(* collectors against the transport and the merge of their facts.          *)
(*                                                                         *)
(* Python values are tagged records, so that values of different Python    *)
(* types can be compared: None, Str(s), Bool(b), List(seq), Dict(function).*)
(* A Python str is a TLA+ string, a set of str is a set of strings.        *)
(***************************************************************************)
EXTENDS Integers, Sequences, FiniteSets, TLC

\* Longest gather_subset list that is explored.
MaxTokens == 2

(***************************************************************************)
(* Python values                                                           *)
(***************************************************************************)
None == [t |-> "None"]

Str(s) == [t |-> "str", v |-> s]

Bool(b) == [t |-> "bool", v |-> b]

List(q) == [t |-> "list", v |-> q]

Dict(f) == [t |-> "dict", v |-> f]

\* dict(): the mapping without keys.
EmptyDict == << >>

\* d.update(e): the keys of e overwrite those of d.
update(d, e) == e @@ d

\* d[k] = x
setitem(d, k, x) == (k :> x) @@ d

\* The mapping f as a value of its own, computed once rather than at each use.
dict(f) == f @@ EmptyDict

\* The sequence q as a value of its own.
list(q) == q \o << >>

(***************************************************************************)
(* str operations                                                          *)
(***************************************************************************)
\* s[i] (1-based), "" past the end
At(s, i) == IF i >= 1 /\ i <= Len(s) THEN SubSeq(s, i, i) ELSE ""

\* s[i:] (1-based i)
From(s, i) == IF i > Len(s) THEN "" ELSE SubSeq(s, i, Len(s))

\* s[i:j] (1-based, j inclusive)
Slice(s, i, j) == IF j < i THEN "" ELSE SubSeq(s, i, j)

\* lit occurs in s at position i
StartsAt(s, i, lit) == i >= 1 /\ i + Len(lit) - 1 <= Len(s) /\ SubSeq(s, i, i + Len(lit) - 1) = lit

\* s.startswith(lit)
startswith(s, lit) == StartsAt(s, 1, lit)

\* lit in s
Contains(s, lit) == \E i \in 1..(Len(s) + 1) : StartsAt(s, i, lit)

(***************************************************************************)
(* Text matching: what the regular expressions of the parsers do.  A match *)
(* is the tuple of its groups (every expression here has at least one),    *)
(* NoMatch stands for a search without result.                             *)
(***************************************************************************)
NoMatch == << >>

Min(S) == CHOOSE x \in S : \A y \in S : x <= y

Max(S) == CHOOSE x \in S : \A y \in S : x >= y

\* \s (the texts hold no other white space than these)
Space == {" ", "\t", "\n"}

\* \w
WordChars ==
  {"a","b","c","d","e","f","g","h","i","j","k","l","m","n","o","p","q","r","s","t","u",
   "v","w","x","y","z","A","B","C","D","E","F","G","H","I","J","K","L","M","N","O","P",
   "Q","R","S","T","U","V","W","X","Y","Z","0","1","2","3","4","5","6","7","8","9","_"}

\* \S
IsNonSpace(c) == c # "" /\ c \notin Space

\* .
IsDot(c) == c # "" /\ c # "\n"

\* Last position of the run of characters outside `stop` that starts at p
\* (p - 1 when the run is empty).
RECURSIVE RunEnd(_, _, _)
RunEnd(s, p, stop) ==
  IF p > Len(s) \/ At(s, p) \in stop THEN p - 1 ELSE RunEnd(s, p + 1, stop)

\* Last position of the run of characters of `allowed` that starts at p.
RECURSIVE RunEndIn(_, _, _)
RunEndIn(s, p, allowed) ==
  IF p > Len(s) \/ At(s, p) \notin allowed THEN p - 1 ELSE RunEndIn(s, p + 1, allowed)

\* The positions at which lit occurs in s.
Occ(s, lit) == {p \in 1..Len(s) : StartsAt(s, p, lit)}

\* The positions at which a line of s starts (^ under re.M).
LineStarts(s) == {p \in 1..(Len(s) + 1) : p = 1 \/ At(s, p - 1) = "\n"}

\* The positions of S in increasing order.
RECURSIVE Ascending(_)
Ascending(S) == IF S = {} THEN << >> ELSE <<Min(S)>> \o Ascending(S \ {Min(S)})

\* s.strip()
RECURSIVE strip(_)
strip(s) ==
  IF s = "" THEN s
  ELSE IF At(s, 1) \in Space THEN strip(From(s, 2))
  ELSE IF At(s, Len(s)) \in Space THEN strip(Slice(s, 1, Len(s) - 1))
  ELSE s

\* s.split('\n')
RECURSIVE split(_)
split(s) ==
  LET e == RunEnd(s, 1, {"\n"})
  IN  IF e = Len(s) THEN <<s>> ELSE <<Slice(s, 1, e)>> \o split(From(s, e + 2))

\* re.search(lit + r'(\S+)', s)
SearchNonSpace(s, lit) ==
  LET P == {p \in Occ(s, lit) : IsNonSpace(At(s, p + Len(lit)))}
  IN  IF P = {} THEN NoMatch
      ELSE LET a == Min(P) + Len(lit) IN <<Slice(s, a, RunEnd(s, a, Space))>>

\* re.search(lit + r'(.+)', s), also with a trailing $ under re.M
SearchRest(s, lit) ==
  LET P == {p \in Occ(s, lit) : IsDot(At(s, p + Len(lit)))}
  IN  IF P = {} THEN NoMatch
      ELSE LET a == Min(P) + Len(lit) IN <<Slice(s, a, RunEnd(s, a, {"\n"}))>>

\* The positions after a, up to the end of a's line, at which lit occurs with at
\* least one character of the line before it: where (.+) followed by lit can end.
Closers(s, a, lit) ==
  {c \in (a + 1)..RunEnd(s, a, {"\n"}) : StartsAt(s, c, lit) /\ c + Len(lit) - 1 <= RunEnd(s, a, {"\n"})}

\* re.search(lit + r'(.+)' + close, s): the group is greedy, it ends at the last
\* close of the line.
SearchUntil(s, lit, close) ==
  LET P == {p \in Occ(s, lit) : Closers(s, p + Len(lit), close) # {}}
  IN  IF P = {} THEN NoMatch
      ELSE LET a == Min(P) + Len(lit) IN <<Slice(s, a, Max(Closers(s, a, close)) - 1)>>

\* re.findall(r'^' + lit + r'\s+: (\S+)', s, re.M)
FindallColon(s, lit) ==
  LET val(p) == RunEndIn(s, p + Len(lit), Space) + 1    \* where ": " has to be
      P == {p \in LineStarts(s) \cap Occ(s, lit) :
              /\ val(p) > p + Len(lit)
              /\ StartsAt(s, val(p), ": ")
              /\ IsNonSpace(At(s, val(p) + 2))}
      Ps == Ascending(P)
  IN  list([n \in 1..Len(Ps) |-> Slice(s, val(Ps[n]) + 2, RunEnd(s, val(Ps[n]) + 2, Space))])

\* The end of the line that holds position p.
LineEnd(s, p) == RunEnd(s, p, {"\n"})

(***************************************************************************)
(* class Default                                                           *)
(***************************************************************************)
\* re.search(r'Version (\S+?)(?:,\s|\s)', data): the group is the shortest run
\* of non-space characters that a comma and white space, or white space, follows.
parse_version(data) ==
  LET lit == "Version "
      e(p) == RunEnd(data, p + Len(lit), Space)
      \* where the group that starts after the literal at p ends; 0: no match at p
      q(p) == IF e(p) < p + Len(lit) \/ e(p) = Len(data) THEN 0
              ELSE IF At(data, e(p)) = "," /\ e(p) - 1 >= p + Len(lit) THEN e(p) - 1
              ELSE e(p)
      P == {p \in Occ(data, lit) : q(p) # 0}
  IN  IF P = {} THEN None ELSE Str(Slice(data, Min(P) + Len(lit), q(Min(P))))

\* re.search(r'^(.+) up', data, re.M): the first line that holds " up" after
\* its first character; the group ends at the last " up" of that line.
parse_hostname(data) ==
  LET ups(p) == {c \in (p + 1)..LineEnd(data, p) : StartsAt(data, c, " up") /\ c + 2 <= LineEnd(data, p)}
      P == {p \in LineStarts(data) : ups(p) # {}}
  IN  IF P = {} THEN None ELSE Str(Slice(data, Min(P), Max(ups(Min(P))) - 1))

\* re.search(r'Hardware:\s+(\w+), ', data)
parse_model(data) ==
  LET lit == "Hardware:"
      b(p) == RunEndIn(data, p + Len(lit), Space) + 1
      e(p) == RunEndIn(data, b(p), WordChars)
      P == {p \in Occ(data, lit) : b(p) > p + Len(lit) /\ e(p) >= b(p) /\ StartsAt(data, e(p) + 1, ", ")}
  IN  IF P = {} THEN None ELSE Str(Slice(data, b(Min(P)), e(Min(P))))

\* The value of match.group(1) when there is a match, else None (the function
\* falls off its end).
group1(match) == IF match = NoMatch THEN None ELSE Str(match[1])

\* re.search(r'image file is "(.+)"', data)
parse_image(data) == group1(SearchUntil(data, "image file is \"", "\""))

\* re.search(r'Serial Number: (\S+)', data)
parse_serialnum(data) == group1(SearchNonSpace(data, "Serial Number: "))

\* re.search(r'Device Manager Version (\S+)', data)
parse_asdm_version(data) == group1(SearchNonSpace(data, "Device Manager Version "))

\* re.search(r'Device Manager image file, (.+)', data)
parse_asdm_image(data) == group1(SearchRest(data, "Device Manager image file, "))

\* parse_stacks(data) applied to self.facts: a key is set only when findall
\* found something.
parse_stacks(self_facts, data) ==
  LET models == FindallColon(data, "Model number")
      serials == FindallColon(data, "System serial number")
      f1 == IF models # << >> THEN setitem(self_facts, "stacked_models", List(models)) ELSE self_facts
  IN  IF serials # << >> THEN setitem(f1, "stacked_serialnums", List(serials)) ELSE f1

\* self.facts of a Default instance after populate() received `responses`.
Default_facts(responses) ==
  LET data == responses[1]
  IN  IF data # ""
      THEN parse_stacks(
             ("version" :> parse_version(data)) @@
             ("hostname" :> parse_hostname(data)) @@
             ("model" :> parse_model(data)) @@
             ("image" :> parse_image(data)) @@
             ("serialnum" :> parse_serialnum(data)) @@
             ("asdm_version" :> parse_asdm_version(data)) @@
             ("asdm_image" :> parse_asdm_image(responses[2])),
             data)
      ELSE EmptyDict

(***************************************************************************)
(* class Failover                                                          *)
(***************************************************************************)
\* re.search(r'Failover On', data)
parse_failover_available(data) == Bool(Contains(data, "Failover On"))

\* re.search(who + r'\s+(Primary|Secondary) - (.+)', data): the two groups.
SearchHost(data, who) ==
  LET b(p) == RunEndIn(data, p + Len(who), Space) + 1
      role(p) == IF StartsAt(data, b(p), "Primary - ") THEN "Primary"
                 ELSE IF StartsAt(data, b(p), "Secondary - ") THEN "Secondary"
                 ELSE ""
      rest(p) == b(p) + Len(role(p)) + 3
      P == {p \in Occ(data, who) : b(p) > p + Len(who) /\ role(p) # "" /\ IsDot(At(data, rest(p)))}
  IN  IF P = {} THEN NoMatch
      ELSE <<role(Min(P)), Slice(data, rest(Min(P)), LineEnd(data, rest(Min(P))))>>

\* parse_state(data) applied to self.facts.
parse_state(self_facts, data) ==
  LET this == SearchHost(data, "This host:")
      other == SearchHost(data, "Other host:")
      f1 == IF this # NoMatch
            THEN setitem(setitem(self_facts, "failover_role", Str(this[1])),
                         "failover_state", Str(strip(this[2])))
            ELSE self_facts
  IN  IF other # NoMatch
      THEN setitem(setitem(f1, "failover_partner_role", Str(other[1])),
                   "failover_partner_state", Str(strip(other[2])))
      ELSE f1

\* self.facts of a Failover instance after populate() received `responses`.
Failover_facts(responses) ==
  LET data == responses[1]
  IN  IF data # ""
      THEN parse_state(setitem(EmptyDict, "failover", parse_failover_available(data)), data)
      ELSE EmptyDict

(***************************************************************************)
(* class Hardware                                                          *)
(***************************************************************************)
\* re.findall(r'^Directory of (\S+)/', data, re.M): the group ends before the
\* last slash of the run of non-space characters.
parse_filesystems(data) ==
  LET lit == "Directory of "
      slashes(p) == {c \in (p + Len(lit) + 1)..RunEnd(data, p + Len(lit), Space) : At(data, c) = "/"}
      Ps == Ascending({p \in LineStarts(data) \cap Occ(data, lit) : slashes(p) # {}})
  IN  List(list([n \in 1..Len(Ps) |-> Slice(data, Ps[n] + Len(lit), Max(slashes(Ps[n])) - 1)]))

\* The file systems stored under the key of the interfaces.
Hardware_facts_collides(responses) ==
  LET data == responses[1]
  IN  IF data # ""
      THEN setitem(EmptyDict, "interfaces", parse_filesystems(data))
      ELSE EmptyDict

\* self.facts of a Hardware instance after populate() received `responses`.
Hardware_facts(responses) ==
  LET data == responses[1]
  IN  IF data # ""
      THEN setitem(EmptyDict, "filesystems", parse_filesystems(data))
      ELSE EmptyDict

(***************************************************************************)
(* class Config                                                            *)
(***************************************************************************)
\* re.findall(r'boot system (.+)', data, re.M): None when nothing is found.
parse_configured_boot_images(data) ==
  LET lit == "boot system "
      P == {p \in Occ(data, lit) : IsDot(At(data, p + Len(lit)))}
      \* a match consumes the rest of its line: the first of a line counts
      Ps == Ascending({p \in P : \A p2 \in P : p2 < p => LineEnd(data, p2) < p})
  IN  IF Ps = << >> THEN None
      ELSE List(list([n \in 1..Len(Ps) |-> Slice(data, Ps[n] + Len(lit), LineEnd(data, Ps[n] + Len(lit)))]))

\* re.search(r'asdm image (.+)', data)
parse_configured_asdm_image(data) == group1(SearchRest(data, "asdm image "))

\* self.facts of a Config instance after populate(), `data` being what
\* get_config() returned.
Config_facts(data) ==
  IF data # ""
  THEN ("boot_images_configured" :> parse_configured_boot_images(data)) @@
       ("asdm_image_configured" :> parse_configured_asdm_image(data))
  ELSE EmptyDict

(***************************************************************************)
(* class Interfaces                                                        *)
(***************************************************************************)
\* (?=.*\bInterface\b): the line holds the word Interface.
HasWordInterface(line) ==
  \E p \in Occ(line, "Interface") :
     At(line, p - 1) \notin WordChars /\ At(line, p + Len("Interface")) \notin WordChars

\* re.match(r'^(?=.*\bInterface\b)(?:\S+ )(\S+)', line): the second word of a
\* line whose first word is followed by one blank.
MatchHeader(line) ==
  LET e1 == RunEnd(line, 1, Space)
  IN  IF /\ HasWordInterface(line)
         /\ e1 >= 1
         /\ At(line, e1 + 1) = " "
         /\ IsNonSpace(At(line, e1 + 2))
      THEN <<Slice(line, e1 + 2, RunEnd(line, e1 + 2, Space))>>
      ELSE NoMatch

\* re.match(r'^(?=.*\bInterface\b)(?:\S+ )(.*\S+)', line).group(1), for a line
\* MatchHeader matches: from the second word to the last non-space character.
HeaderRest(line) ==
  Slice(line, RunEnd(line, 1, Space) + 2, Max({j \in 1..Len(line) : IsNonSpace(At(line, j))}))

\* The body of the loop of parse_interfaces for the lines from position n on,
\* `parsed` and `key` being the locals; raised names the exception that ended it.
RECURSIVE parse_interfaces_from(_, _, _, _)
parse_interfaces_from(lines, n, parsed, key) ==
  IF n > Len(lines) THEN [parsed |-> parsed, raised |-> ""]
  ELSE LET line == lines[n]
       IN  IF Len(line) = 0
           THEN parse_interfaces_from(lines, n + 1, parsed, key)
           ELSE IF At(line, 1) = "\t" \/ At(line, 1) = " "
           THEN IF key \in DOMAIN parsed
                THEN parse_interfaces_from(lines, n + 1,
                       setitem(parsed, key, parsed[key] \o "\n" \o line), key)
                ELSE [parsed |-> parsed, raised |-> "KeyError"]
           ELSE IF MatchHeader(line) # NoMatch
           THEN parse_interfaces_from(lines, n + 1,
                  setitem(parsed, MatchHeader(line)[1], HeaderRest(line)), MatchHeader(line)[1])
           ELSE parse_interfaces_from(lines, n + 1, parsed, key)

parse_interfaces(data) == parse_interfaces_from(split(data), 1, EmptyDict, "")

\* re.search(r'IP address (.+),', data)
parse_ipv4_addr(data) == group1(SearchUntil(data, "IP address ", ","))

\* re.search(r'subnet mask (.+)', data)
parse_ipv4_subnet(data) == group1(SearchRest(data, "subnet mask "))

\* re.search(r'Description: (.+)$', data, re.M)
parse_description(data) ==
  IF SearchRest(data, "Description: ") # NoMatch
  THEN Str(SearchRest(data, "Description: ")[1])
  ELSE Str("not set")

\* re.search(r'MAC address (.+),', data)
parse_macaddress(data) == group1(SearchUntil(data, "MAC address ", ","))

\* re.search(r'MTU (\S+)', data)
parse_mtu(data) == group1(SearchNonSpace(data, "MTU "))

\* re.search(r'Hardware is (.+),', data, re.M)
parse_type(data) == group1(SearchUntil(data, "Hardware is ", ","))

\* re.search(r'line protocol is (.+)$', data, re.M)
parse_lineprotocol(data) == group1(SearchRest(data, "line protocol is "))

\* re.search(r'^(?:.+) is (.+),', data, re.M): in the first line that has one,
\* the last " is " that a comma follows after at least one character; the group
\* ends at the last comma of the line.
parse_operstatus(data) ==
  LET commas(c) == {m \in (c + 5)..LineEnd(data, c) : At(data, m) = ","}
      iss(p) == {c \in (p + 1)..LineEnd(data, p) : StartsAt(data, c, " is ") /\ commas(c) # {}}
      P == {p \in LineStarts(data) : iss(p) # {}}
  IN  IF P = {} THEN None
      ELSE LET c == Max(iss(Min(P))) IN Str(Slice(data, c + 4, Max(commas(c)) - 1))

populate_interfaces(interfaces) ==
  dict([key \in DOMAIN interfaces |->
          Dict(("description" :> parse_description(interfaces[key])) @@
               ("macaddress" :> parse_macaddress(interfaces[key])) @@
               ("mtu" :> parse_mtu(interfaces[key])) @@
               ("lineprotocol" :> parse_lineprotocol(interfaces[key])) @@
               ("operstatus" :> parse_operstatus(interfaces[key])) @@
               ("interface-type" :> parse_type(interfaces[key])) @@
               ("ipv4_addr" :> parse_ipv4_addr(interfaces[key])) @@
               ("ipv4_subnet" :> parse_ipv4_subnet(interfaces[key])))])

\* What populate() of an Interfaces instance does with `responses`: self.facts
\* afterwards, and the exception it raised ("" when none).
Interfaces_populate(responses) ==
  LET data == responses[1]
      interfaces == parse_interfaces(data)
  IN  IF data # ""
      THEN IF interfaces.raised # ""
           THEN [facts |-> EmptyDict, raised |-> interfaces.raised]
           ELSE [facts |-> setitem(EmptyDict, "interfaces",
                                   Dict(populate_interfaces(interfaces.parsed))),
                 raised |-> ""]
      ELSE [facts |-> EmptyDict, raised |-> ""]

(***************************************************************************)
(* The registry                                                            *)
(***************************************************************************)
\* The keys of FACT_SUBSETS; the value of a key is its collector class,
\* which the populate actions below dispatch on.
FACT_SUBSETS == {"default", "hardware", "interfaces", "config", "failover"}

VALID_SUBSETS == FACT_SUBSETS

\* COMMANDS of each collector class (Config inherits the empty list of FactsBase).
COMMANDS ==
  ("default" :> <<"show version", "show asdm image">>) @@
  ("failover" :> <<"show failover">>) @@
  ("hardware" :> <<"dir">>) @@
  ("config" :> << >>) @@
  ("interfaces" :> <<"show interface", "show ipv6 interface brief">>)

(***************************************************************************)
(* The inputs: the tokens of gather_subset and what the device answers     *)
(***************************************************************************)
\* The tokens a gather_subset list is drawn from: every documented token,
\* and three that name no collector.
Tokens == {"all", "!all"} \cup VALID_SUBSETS \cup {"!" \o s : s \in VALID_SUBSETS}
            \cup {"bogus", "!bogus", "!!config"}

\* Every list over S of length at most n.
SeqsUpTo(S, n) == UNION {[1..k -> S] : k \in 0..n}

\* Every order in which the elements of S can be listed.
Orders(S) == {q \in [1..Cardinality(S) -> S] : \A a, b \in DOMAIN q : q[a] = q[b] => a = b}

ShowVersion ==
  "Cisco Adaptive Security Appliance Software Version 9.1(2) \n" \o
  "Device Manager Version 7.1(3)\n" \o
  "System image file is \"disk0:/asa912-k8.bin\"\n" \o
  "ciscoasa up 1 hour 2 mins\n" \o
  "Hardware:   ASA5505, 512 MB RAM, CPU Geode 500 MHz,\n" \o
  "Serial Number: JMX1234ABCD\n"

ShowAsdmImage == "Device Manager image file, disk0:/asdm-713.bin"

ShowFailover ==
  "Failover On\n" \o
  "This host: Primary - Active\n" \o
  "Other host: Secondary - Standby Ready \n"

ShowFailoverOff == "Failover Off"

ShowDir ==
  "\nDirectory of disk0:/\n\n" \o
  "10  -rwx  100  10:00:00 Jan 01 2018  asa912-k8.bin\n"

ShowInterface ==
  "Interface GigabitEthernet0/0 \"outside\", is up, line protocol is up\n" \o
  "  Hardware is i82546GB rev03, BW 1000 Mbps, DLY 10 usec\n" \o
  "\tDescription: uplink\n" \o
  "\tMAC address 0013.c480.82ce, MTU 1500\n" \o
  "\tIP address 10.0.0.1, subnet mask 255.255.255.0\n" \o
  "Interface Management0/0 \"\", is administratively down, line protocol is down\n" \o
  "\tIP address unassigned\n"

\* The answer starts inside an interface's block: its header line is missing.
ShowInterfaceCut ==
  "  Hardware is i82546GB rev03, BW 1000 Mbps, DLY 10 usec\n" \o
  "Interface Management0/0 \"\", is administratively down, line protocol is down\n"

ShowIpv6 == "GigabitEthernet0/0 [up/up]\n    unassigned\n"

RunningConfig ==
  "hostname ciscoasa\n" \o
  "boot system disk0:/asa912-k8.bin\n" \o
  "asdm image disk0:/asdm-713.bin\n"

RunningConfigBare == "hostname ciscoasa\n"

\* What the device prints for a command it does not accept.
CliError == "ERROR: % Invalid input detected at '^' marker."

\* A device: the text it answers to each command, and its configuration.
Device(version, asdm, failover, dir, interface, ipv6, config) ==
  ("show version" :> version) @@ ("show asdm image" :> asdm) @@
  ("show failover" :> failover) @@ ("dir" :> dir) @@ ("show interface" :> interface) @@
  ("show ipv6 interface brief" :> ipv6) @@ ("running-config" :> config)

\* The devices a run is checked against: one that answers everything, one
\* that answers nothing, one that rejects every command, one without failover,
\* ASDM image and boot lines, one whose dir is empty and whose interface
\* listing is cut, and one that answers everything but show version.
Devices ==
  { Device(ShowVersion, ShowAsdmImage, ShowFailover, ShowDir, ShowInterface, ShowIpv6, RunningConfig),
    Device("", "", "", "", "", "", ""),
    Device(CliError, CliError, CliError, CliError, CliError, CliError, CliError),
    Device(ShowVersion, "", ShowFailoverOff, ShowDir, ShowInterface, "", RunningConfigBare),
    Device(ShowVersion, ShowAsdmImage, ShowFailover, "", ShowInterfaceCut, ShowIpv6, RunningConfig),
    Device("", ShowAsdmImage, ShowFailover, ShowDir, ShowInterface, ShowIpv6, RunningConfig) }

VARIABLES
  gather_subset,    \* module.params['gather_subset']
  device,           \* the device behind the transport
  token_index,      \* position of the loop over gather_subset
  runable_subsets,
  exclude_subsets,
  facts,            \* the dict facts of main()
  instances,        \* the list instances of main(): the collectors' names, in order
  inst_responses,   \* self.responses of each instance
  inst_facts,       \* self.facts of each instance
  inst_index,       \* position of the loop over instances
  sent,             \* the calls the transport received, in order
  populated,        \* the collectors whose populate() was called, in order
  pc,               \* position of main(): loop, populate, done; failed, raised
  result            \* what the module reported: the arguments of fail_json / exit_json

vars == <<gather_subset, device, token_index, runable_subsets, exclude_subsets, facts, instances,
          inst_responses, inst_facts, inst_index, sent, populated, pc, result>>

Init ==
  /\ gather_subset \in SeqsUpTo(Tokens, MaxTokens)
  /\ device \in Devices
  /\ token_index = 1
  /\ runable_subsets = {}
  /\ exclude_subsets = {}
  /\ facts = EmptyDict
  /\ instances = << >>
  /\ inst_responses = EmptyDict
  /\ inst_facts = EmptyDict
  /\ inst_index = 1
  /\ sent = << >>
  /\ populated = << >>
  /\ pc = "loop"
  /\ result = None

\* AnsibleModule.fail_json(msg=...): reports the failure and exits the process.
fail_json(msg) ==
  /\ pc' = "failed"
  /\ result' = [failed |-> TRUE, msg |-> msg]

\* The validation skipped: every name passes.
bad_subset_never(subset) == FALSE

\* subset not in VALID_SUBSETS
bad_subset(subset) == subset \notin VALID_SUBSETS

\* One iteration of `for subset in gather_subset`.
MainLoop ==
  /\ pc = "loop"
  /\ token_index <= Len(gather_subset)
  /\ LET token == gather_subset[token_index]
         exclude == startswith(token, "!")
         subset == IF exclude THEN From(token, 2) ELSE token
     IN  IF token = "all"
         THEN /\ runable_subsets' = runable_subsets \cup VALID_SUBSETS
              /\ token_index' = token_index + 1
              /\ UNCHANGED <<exclude_subsets, pc, result>>
         ELSE IF exclude /\ subset = "all"
         THEN /\ exclude_subsets' = exclude_subsets \cup VALID_SUBSETS
              /\ token_index' = token_index + 1
              /\ UNCHANGED <<runable_subsets, pc, result>>
         ELSE IF bad_subset(subset)
         THEN /\ fail_json("Bad subset")
              /\ UNCHANGED <<token_index, runable_subsets, exclude_subsets>>
         ELSE IF exclude
         THEN /\ exclude_subsets' = exclude_subsets \cup {subset}
              /\ token_index' = token_index + 1
              /\ UNCHANGED <<runable_subsets, pc, result>>
         ELSE /\ runable_subsets' = runable_subsets \cup {subset}
              /\ token_index' = token_index + 1
              /\ UNCHANGED <<exclude_subsets, pc, result>>
  /\ UNCHANGED <<gather_subset, device, facts, instances, inst_responses, inst_facts, inst_index, sent, populated>>

\* 'default' not added.
resolve_without_default(runable, exclude) ==
  (IF runable = {} THEN VALID_SUBSETS ELSE runable) \ exclude

\* Nothing named means nothing, not everything.
resolve_without_fallback(runable, exclude) ==
  (runable \ exclude) \cup {"default"}

\* The exclusions applied before the test for an empty set.
resolve_exclude_first(runable, exclude) ==
  (IF runable \ exclude = {} THEN VALID_SUBSETS ELSE runable \ exclude) \cup {"default"}

\* runable_subsets after the loop: everything when nothing was named, without
\* the excluded names, with 'default'.
resolve(runable, exclude) ==
  ((IF runable = {} THEN VALID_SUBSETS ELSE runable) \ exclude) \cup {"default"}

\* facts['gather_subset'] taken from runable_subsets as the loop left it.
MainResolveListsEarly ==
  /\ pc = "loop"
  /\ token_index > Len(gather_subset)
  /\ runable_subsets' = resolve(runable_subsets, exclude_subsets)
  /\ \E early \in Orders(runable_subsets) : facts' = setitem(EmptyDict, "gather_subset", List(early))
  /\ \E order \in Orders(runable_subsets') : instances' = order
  /\ inst_responses' = dict([c \in runable_subsets' |-> None])
  /\ inst_facts' = dict([c \in runable_subsets' |-> EmptyDict])
  /\ pc' = "populate"
  /\ UNCHANGED <<gather_subset, device, token_index, exclude_subsets, inst_index, sent, populated, result>>

\* What main() does after the loop, up to the creation of the instances.
\* list(runable_subsets) and `for key in runable_subsets` list the set in the
\* order it iterates in, the same for both as the set does not change between.
MainResolve ==
  /\ pc = "loop"
  /\ token_index > Len(gather_subset)
  /\ runable_subsets' = resolve(runable_subsets, exclude_subsets)
  /\ \E order \in Orders(runable_subsets') :
       /\ facts' = setitem(EmptyDict, "gather_subset", List(order))
       /\ instances' = order
  /\ inst_responses' = dict([c \in runable_subsets' |-> None])
  /\ inst_facts' = dict([c \in runable_subsets' |-> EmptyDict])
  /\ pc' = "populate"
  /\ UNCHANGED <<gather_subset, device, token_index, exclude_subsets, inst_index, sent, populated, result>>

\* run_commands(module, commands, check_rc=False): one answer per command.
run_commands(dev, commands) == list([k \in 1..Len(commands) |-> dev[commands[k]]])

\* get_config(module): the configuration of the device.
get_config(dev) == dev["running-config"]

\* What populate() of an instance of the class registered as c does on the
\* device: the calls to the transport, self.responses and self.facts afterwards,
\* and the exception it raised ("" when none).
populate(c, dev) ==
  LET r == run_commands(dev, COMMANDS[c])
      call == [call |-> "run_commands", commands |-> COMMANDS[c]]
  IN  CASE c = "default" ->
             [sent |-> <<call>>, responses |-> r, facts |-> Default_facts(r), raised |-> ""]
        [] c = "failover" ->
             [sent |-> <<call>>, responses |-> r, facts |-> Failover_facts(r), raised |-> ""]
        [] c = "hardware" ->
             [sent |-> <<call>>, responses |-> r, facts |-> Hardware_facts(r), raised |-> ""]
        [] c = "config" ->
             [sent |-> <<call, [call |-> "get_config"]>>, responses |-> r,
              facts |-> Config_facts(get_config(dev)), raised |-> ""]
        [] c = "interfaces" ->
             [sent |-> <<call>>, responses |-> r,
              facts |-> Interfaces_populate(r).facts, raised |-> Interfaces_populate(r).raised]

\* populate() on every device, for every class.
Populated == dict([dev \in Devices |-> dict([c \in FACT_SUBSETS |-> populate(c, dev)])])

\* One iteration of `for inst in instances`: inst.populate() and, unless it
\* raised, facts.update(inst.facts).
MainPopulate ==
  /\ pc = "populate"
  /\ inst_index <= Len(instances)
  /\ LET c == instances[inst_index]
         did == Populated[device][c]
     IN  /\ sent' = sent \o did.sent
         /\ populated' = Append(populated, c)
         /\ inst_responses' = [inst_responses EXCEPT ![c] = List(did.responses)]
         /\ inst_facts' = [inst_facts EXCEPT ![c] = did.facts]
         /\ IF did.raised # ""
            THEN /\ pc' = "raised"
                 /\ result' = [failed |-> TRUE, exception |-> did.raised]
                 /\ UNCHANGED <<facts, inst_index>>
            ELSE /\ facts' = update(facts, did.facts)
                 /\ inst_index' = inst_index + 1
                 /\ UNCHANGED <<pc, result>>
  /\ UNCHANGED <<gather_subset, device, token_index, runable_subsets, exclude_subsets, instances>>

\* The global list warnings: nothing appends to it.
warnings == List(<< >>)

\* The keys of facts prefixed, and module.exit_json(ansible_facts=..., warnings=...).
MainExit ==
  /\ pc = "populate"
  /\ inst_index > Len(instances)
  /\ LET ansible_facts == dict([key \in {"ansible_net_" \o k : k \in DOMAIN facts} |->
                                  facts[From(key, Len("ansible_net_") + 1)]])
     IN  result' = [failed |-> FALSE, ansible_facts |-> ansible_facts, warnings |-> warnings]
  /\ pc' = "done"
  /\ UNCHANGED <<gather_subset, device, token_index, runable_subsets, exclude_subsets, facts, instances,
                 inst_responses, inst_facts, inst_index, sent, populated>>

Next == MainLoop \/ MainResolve \/ MainPopulate \/ MainExit

Spec == Init /\ [][Next]_vars

(***************************************************************************)
(* What the claims speak of                                                *)
(***************************************************************************)
\* The token is 'all', '!all', a registered name or '!' and a registered name.
IsValidToken(token) ==
  token \in {"all", "!all"} \cup VALID_SUBSETS \cup {"!" \o s : s \in VALID_SUBSETS}

AllValid(tokens) == \A k \in DOMAIN tokens : IsValidToken(tokens[k])

HasInvalid(tokens) == \E k \in DOMAIN tokens : ~IsValidToken(tokens[k])

\* The position of the first token that is not valid.
FirstInvalid(tokens) == Min({k \in DOMAIN tokens : ~IsValidToken(tokens[k])})

\* The names the positive tokens of the list add.
Included(tokens) ==
  {x \in VALID_SUBSETS : \E k \in DOMAIN tokens : tokens[k] = x \/ tokens[k] = "all"}

\* The names the '!'-tokens of the list add.
Excluded(tokens) ==
  {x \in VALID_SUBSETS : \E k \in DOMAIN tokens : tokens[k] = "!" \o x \/ tokens[k] = "!all"}

\* main() is past line 455: runable_subsets is the resolved set.
Resolved == pc \in {"populate", "done", "raised"}

\* The elements of a sequence.
Range(q) == {q[k] : k \in DOMAIN q}

\* C1: for every list of valid tokens, the resolved set holds 'default', so
\* it is never empty.
C1_BaselineAlwaysResolved ==
  (Resolved /\ AllValid(gather_subset)) =>
     ("default" \in runable_subsets /\ runable_subsets # {})

\* C1 on a list that excludes everything, 'default' by name too.
C1_Witness ==
  Resolved /\ gather_subset = <<"!default", "!all">> /\ runable_subsets = {"default"}

\* C2: for every list of valid tokens, the resolved set is (included -
\* excluded) + {'default'}, included being every registered name when no
\* positive token added one; it holds registered names only; ['all'] gives
\* every name, ['config'] gives default and config, ['!config'] gives every
\* name but config.
C2_ResolvedSetFormula ==
  (Resolved /\ AllValid(gather_subset)) =>
     /\ runable_subsets =
          ((IF Included(gather_subset) = {} THEN VALID_SUBSETS ELSE Included(gather_subset))
             \ Excluded(gather_subset)) \cup {"default"}
     /\ runable_subsets \subseteq VALID_SUBSETS
     /\ gather_subset = <<"all">> => runable_subsets = VALID_SUBSETS
     /\ gather_subset = <<"config">> => runable_subsets = {"default", "config"}
     /\ gather_subset = <<"!config">> => runable_subsets = VALID_SUBSETS \ {"config"}

\* C2 on the default of the option, where only a negation is given.
C2_Witness ==
  Resolved /\ gather_subset = <<"!config">>
           /\ runable_subsets = {"default", "hardware", "interfaces", "failover"}

\* C3: a name other than 'default' that the list negates, by '!x' or '!all' at
\* any position, is not in the resolved set; with '!all' in the list the
\* resolved set is 'default' alone.
C3_NegationWins ==
  (Resolved /\ AllValid(gather_subset)) =>
     /\ \A x \in VALID_SUBSETS \ {"default"} :
          x \in Excluded(gather_subset) => x \notin runable_subsets
     /\ (\E k \in DOMAIN gather_subset : gather_subset[k] = "!all") =>
          runable_subsets = {"default"}

\* C3 where the negation comes first and the inclusion after it.
C3_Witness ==
  /\ Resolved
  /\ \/ gather_subset = <<"!hardware", "hardware">>
     \/ gather_subset = <<"!all", "interfaces">>
  /\ runable_subsets = {"default"}

\* C4: with a token in the list that names no collector, the run stops at that
\* token with a failure: until then and afterwards no collector is created,
\* nothing is sent to the transport, no populate() runs and exit_json is not
\* reached.
C4_InvalidTokenFailsBeforeAnyWork ==
  HasInvalid(gather_subset) =>
     /\ pc \in {"loop", "failed"}
     /\ pc = "loop" => (token_index <= FirstInvalid(gather_subset) /\ ENABLED MainLoop)
     /\ pc = "failed" => (token_index = FirstInvalid(gather_subset) /\ result.failed)
     /\ instances = << >>
     /\ sent = << >>
     /\ populated = << >>
     /\ facts = EmptyDict

\* C4 where valid tokens precede the offending one.
C4_Witness ==
  /\ pc = "failed"
  /\ Len(gather_subset) = 2
  /\ IsValidToken(gather_subset[1])
  /\ token_index = 2

\* C5: the error reported for an unknown subset carries the offending token.
C5_ErrorNamesToken ==
  pc = "failed" =>
     LET token == gather_subset[token_index]
     IN  Contains(result.msg, IF startswith(token, "!") THEN From(token, 2) ELSE token)

\* Every response of the instance of c was the empty string (for the config
\* collector, whose COMMANDS are none, what get_config() returned).
AllEmpty(c) ==
  /\ inst_responses[c] # None
  /\ \A k \in DOMAIN inst_responses[c].v : inst_responses[c].v[k] = ""
  /\ c = "config" => get_config(device) = ""

\* C6: a fact whose parser found nothing is left out of the collector's
\* facts: no key is present with the value None.
C6_ParseMissOmitsKey ==
  \A c \in DOMAIN inst_facts : \A k \in DOMAIN inst_facts[c] : inst_facts[c][k] # None

\* C7: a collector that got the empty string for every command has no facts
\* and raised nothing, and the run is not aborted: it completes with the
\* gather_subset entry and the facts of the other collectors.
C7_EmptyResponsesStillSucceed ==
  \A c \in Range(populated) :
     AllEmpty(c) =>
        /\ inst_facts[c] = EmptyDict
        /\ pc # "raised"
        /\ pc = "done" => "ansible_net_gather_subset" \in DOMAIN result.ansible_facts

\* C8: on a successful run the gather_subset entry of the result lists each
\* name of the resolved set once and nothing else, populate() ran once for each
\* of these collectors and for no other, and no collector's facts replaced the
\* entry.
C8_GatherSubsetNamesWhatRan ==
  /\ Resolved =>
       /\ Range(populated) \subseteq runable_subsets
       /\ \A a, b \in DOMAIN populated : populated[a] = populated[b] => a = b
  /\ pc = "done" =>
       LET listed == result.ansible_facts["ansible_net_gather_subset"]
       IN  /\ listed.t = "list"
           /\ Range(listed.v) = runable_subsets
           /\ Len(listed.v) = Cardinality(runable_subsets)
           /\ Range(populated) = Range(listed.v)
           /\ Len(populated) = Len(listed.v)

\* C8 on a run of several collectors that all produced facts.
C8_Witness ==
  /\ pc = "done"
  /\ Cardinality(runable_subsets) >= 3
  /\ \A c \in runable_subsets : inst_facts[c] # EmptyDict

\* C9: Interfaces.populate() raises on no response text, so no run ends in
\* an exception.
C9_InterfacesNeverRaises == pc # "raised"

\* The order in which FACT_SUBSETS declares the collectors.
Declared == <<"default", "hardware", "interfaces", "config", "failover">>

\* facts after the facts of the instances Declared[k..] were merged into f,
\* for those that were created.
RECURSIVE MergeDeclared(_, _)
MergeDeclared(f, k) ==
  IF k > Len(Declared) THEN f
  ELSE MergeDeclared(IF Declared[k] \in DOMAIN inst_facts
                     THEN update(f, inst_facts[Declared[k]]) ELSE f, k + 1)

====
